---- MODULE Spec2Model ----
(***************************************************************************)
(* Model of the SSD1351 OLED driver (src/ssd1351.py, class SSD1351).       *)
(*                                                                         *)
(* The state is the driver object's fields plus a record of the last       *)
(* public call: its arguments (call), the SPI exchanges it performed       *)
(* (wire), the exception it raised (raised) and its return value (ret).    *)
(* Every public method is one action; private helpers are operators.       *)
(* Python semantics are those of the language: a missing attribute raises  *)
(* AttributeError, a call with too few arguments raises TypeError, a       *)
(* bytearray of negative size raises ValueError.                           *)
(* The scratch fields buf, s_buf and c_buf are written before they are     *)
(* read in every call that uses them; they are values inside the           *)
(* operators, not variables.                                               *)
(***************************************************************************)
EXTENDS Integers, Sequences, FiniteSets, TLC

VARIABLES
    screen_width,   \* self._screen_width   (None until init succeeds)
    screen_height,  \* self._screen_height
    column_offset,  \* self._column_offset
    raw_offset,     \* self._raw_offset
    bit_per_pixel,  \* self._bit_per_pixel
    font_init,      \* self.font_init
    font_color,     \* self.font_color      (None until the first draw_text)
    align,          \* self.align
    background,     \* self.background
    dynamic_area,   \* self.dynamic_area    [x, y, width, height, buffer]; buffer << >> is None
    call,           \* the last public call and its arguments
    wire,           \* the SPI exchanges of the last call, in order
    raised,         \* the exception the last call raised ("None" if none)
    ret             \* the value the last call returned (None for the public methods)

vars == <<screen_width, screen_height, column_offset, raw_offset, bit_per_pixel,
          font_init, font_color, align, background, dynamic_area,
          call, wire, raised, ret>>

display == <<screen_width, screen_height, column_offset, raw_offset, bit_per_pixel>>
style   == <<font_init, font_color, align, background, dynamic_area>>

\* Python's None where an integer is expected (all real values are >= 0).
None == -1

(***************************************************************************)
(* Program constants (src/ssd1351.py).                                     *)
(***************************************************************************)
DISPLAYOFF         == 174   \* 0xAE
DISPLAYON          == 175   \* 0xAF
CMD_SETCOLUMN      == 21    \* 0x15
CMD_SETROW         == 117   \* 0x75
CMD_WRITERAM       == 92    \* 0x5C
CMD_SETREMAP       == 160   \* 0xA0
CMD_STARTLINE      == 161   \* 0xA1
CMD_DISPLAYOFFSET  == 162   \* 0xA2
CMD_NORMALDISPLAY  == 166   \* 0xA6
CMD_DISPLAYOFF     == 174   \* 0xAE
CMD_PRECHARGE      == 177   \* 0xB1
CMD_CLOCKDIV       == 179   \* 0xB3
CMD_SETVSL         == 180   \* 0xB4
CMD_PRECHARGE2     == 182   \* 0xB6
CMD_VCOMH          == 190   \* 0xBE
CMD_CONTRASTABC    == 193   \* 0xC1
CMD_CONTRASTMASTER == 199   \* 0xC7
CMD_MUXRATIO       == 202   \* 0xCA
CMD_COMMANDLOCK    == 253   \* 0xFD

OLED_TEXT_ALIGN_NONE    == 0
OLED_TEXT_ALIGN_LEFT    == 1
OLED_TEXT_ALIGN_RIGHT   == 2
OLED_TEXT_ALIGN_CENTER  == 3
OLED_TEXT_VALIGN_TOP    == 16   \* 0x10
OLED_TEXT_VALIGN_BOTTOM == 32   \* 0x20
OLED_TEXT_VALIGN_CENTER == 48   \* 0x30

OLED_TEXT_ALIGN ==
    { OLED_TEXT_ALIGN_NONE, OLED_TEXT_ALIGN_LEFT, OLED_TEXT_ALIGN_RIGHT,
      OLED_TEXT_ALIGN_CENTER, OLED_TEXT_VALIGN_TOP, OLED_TEXT_VALIGN_BOTTOM,
      OLED_TEXT_VALIGN_CENTER }

MaxScreen        == 128       \* init: "if screen_width > 128 or screen_height > 128"
MaxContrast      == 255       \* set_contrast: "if contrast > 255"
DefaultFontColor == 16777215  \* draw_text: self._set_font(font_color=0xFFFFFF)
DefaultBackground == 17521    \* _set_text_prop: background = 0x4471
ClearColor       == 0         \* clear: self.fill_screen(0x000000)

(***************************************************************************)
(* Bounds of the model: the small panel and the sampled coordinates.       *)
(***************************************************************************)
SmallW  == 3    \* width of the small panel the clipping cases are run on
SmallH  == 2    \* its height
MaxSize == 3    \* rectangle widths and heights are 1..MaxSize

(***************************************************************************)
(* Integer helpers: Python's >>, <<, & and | on non-negative integers.     *)
(***************************************************************************)
Pow2(n) == 2 ^ n

Shr(v, n) == v \div Pow2(n)
Shl(v, n) == v * Pow2(n)

RECURSIVE BitAnd(_, _)
BitAnd(a, b) ==
    IF a = 0 \/ b = 0 THEN 0
    ELSE (IF a % 2 = 1 /\ b % 2 = 1 THEN 1 ELSE 0) + 2 * BitAnd(a \div 2, b \div 2)

RECURSIVE BitOr(_, _)
BitOr(a, b) ==
    IF a = 0 THEN b
    ELSE IF b = 0 THEN a
    ELSE (IF a % 2 = 1 \/ b % 2 = 1 THEN 1 ELSE 0) + 2 * BitOr(a \div 2, b \div 2)

(***************************************************************************)
(* Transport: one exchange is select, set the command/data line, write,    *)
(* unselect.  Each operator yields the exchanges it appends to the wire.   *)
(***************************************************************************)
_command(cmd) == << [dc |-> 0, bytes |-> <<cmd>>] >>

_data(data) == << [dc |-> 1, bytes |-> <<data>>] >>

_send_data(bytes) == << [dc |-> 1, bytes |-> bytes] >>

(***************************************************************************)
(* Colour encoding.  _scale computes int((x - inLow) / float(inHigh) *     *)
(* outHigh + outLow); for the arguments _encode_color passes (x in 0..255, *)
(* inHigh = 255, outHigh in {31, 63}) the floating-point result equals the *)
(* exact quotient below for every x.                                       *)
(***************************************************************************)
_scale_round(x, inLow, inHigh, outLow, outHigh) ==
    (2 * (x - inLow) * outHigh + inHigh) \div (2 * inHigh) + outLow

_scale(x, inLow, inHigh, outLow, outHigh) ==
    ((x - inLow) * outHigh) \div inHigh + outLow

_encode_color(color) ==
    LET red         == BitAnd(Shr(color, 16), 255)
        green       == BitAnd(Shr(color, 8), 255)
        blue        == BitAnd(color, 255)
        redScaled   == _scale(red, 0, 255, 0, 31)
        greenScaled == _scale(green, 0, 255, 0, 63)
        blueScaled  == _scale(blue, 0, 255, 0, 31)
    IN  BitOr(Shl(BitOr(Shl(redScaled, 6), greenScaled), 5), blueScaled)

\* "if encode: color = self._encode_color(color)"
Resolve(color, encode) == IF encode THEN _encode_color(color) ELSE color

(***************************************************************************)
(* Address window.                                                         *)
(***************************************************************************)
\* The w and h _prepare works with after its two clipping tests.
ClipH(y, h) == IF y + h > screen_height THEN screen_height - y - 1 ELSE h
ClipW(x, w) == IF x + w > screen_width THEN screen_width - x - 1 ELSE w

_prepare_exact(x, y, w, h) ==
    IF x >= screen_width \/ y >= screen_height THEN << >>
    ELSE LET h1 == IF y + h > screen_height THEN screen_height - y ELSE h
             w1 == IF x + w > screen_width THEN screen_width - x ELSE w
             x1 == x + column_offset
             y1 == y + raw_offset
         IN  _command(CMD_SETCOLUMN) \o _data(x1) \o _data(x1 + w1 - 1)
             \o _command(CMD_SETROW) \o _data(y1) \o _data(y1 + h1 - 1)
             \o _command(CMD_WRITERAM)

_prepare_no_offset(x, y, w, h) ==
    IF x >= screen_width \/ y >= screen_height THEN << >>
    ELSE LET h1 == ClipH(y, h)
             w1 == ClipW(x, w)
         IN  _command(CMD_SETCOLUMN) \o _data(x) \o _data(x + w1 - 1)
             \o _command(CMD_SETROW) \o _data(y) \o _data(y + h1 - 1)
             \o _command(CMD_WRITERAM)

_prepare_unclipped(x, y, w, h) ==
    IF x >= screen_width \/ y >= screen_height THEN << >>
    ELSE LET x1 == x + column_offset
             y1 == y + raw_offset
         IN  _command(CMD_SETCOLUMN) \o _data(x1) \o _data(x1 + w - 1)
             \o _command(CMD_SETROW) \o _data(y1) \o _data(y1 + h - 1)
             \o _command(CMD_WRITERAM)

\* _prepare returns None in both cases; what it yields here is the exchanges.
_prepare(x, y, w, h) ==
    IF x >= screen_width \/ y >= screen_height THEN << >>
    ELSE LET h1 == ClipH(y, h)
             w1 == ClipW(x, w)
             x1 == x + column_offset
             y1 == y + raw_offset
         IN  _command(CMD_SETCOLUMN) \o _data(x1) \o _data(x1 + w1 - 1)
             \o _command(CMD_SETROW) \o _data(y1) \o _data(y1 + h1 - 1)
             \o _command(CMD_WRITERAM)

(***************************************************************************)
(* Pixel buffers.                                                          *)
(***************************************************************************)
\* The loop of fill_rect and of _create_text_background: n pixels, each the
\* byte pair (color >> 8, color & 0x00FF).
SolidBuffer(n, color) ==
    LET Pairs(d1, d2) == [i \in 1..(2 * n) |-> IF i % 2 = 1 THEN d1 ELSE d2]
    IN  Pairs(Shr(color, 8), BitAnd(color, 255))

\* fill_rect's effect on the wire and its outcome; the calls before init
\* fail in _prepare on the missing attribute _screen_width.
fill_rect_run(x, y, w, h, color, encode) ==
    IF screen_width = None
    THEN [wire |-> << >>, raised |-> "AttributeError"]
    ELSE [wire   |-> _prepare(x, y, w, h)
                     \o _send_data(SolidBuffer(w * h, Resolve(color, encode))),
          raised |-> "None"]

draw_pixel_swapped(x, y, color, encode) ==
    IF screen_width = None
    THEN [wire |-> << >>, raised |-> "AttributeError"]
    ELSE LET c == Resolve(color, encode)
         IN  [wire   |-> _prepare(y, x, 1, 1)
                         \o _send_data(<<Shr(c, 8), BitAnd(c, 255)>>),
              raised |-> "None"]

draw_pixel_run(x, y, color, encode) ==
    IF screen_width = None
    THEN [wire |-> << >>, raised |-> "AttributeError"]
    ELSE LET c == Resolve(color, encode)
         IN  [wire   |-> _prepare(x, y, 1, 1)
                         \o _send_data(<<Shr(c, 8), BitAnd(c, 255)>>),
              raised |-> "None"]

draw_img_run(bytes, x, y, w, h) ==
    IF screen_width = None
    THEN [wire |-> << >>, raised |-> "AttributeError"]
    ELSE [wire   |-> _prepare(x, y, w, h) \o _send_data(bytes),
          raised |-> "None"]

(***************************************************************************)
(* The built-in font, fonts.guiFont_Tahoma_7_Regular.  The descriptor's    *)
(* layout is the one _set_font, _get_text_width and _write_c_to_buf read:  *)
(* bytes 2..3 first character, 4..5 last character, 6 height, then from    *)
(* byte 8 one 4-byte record per character (width, 3-byte bitmap offset),   *)
(* then the bitmaps, which _write_c_to_buf reads one byte per glyph row.   *)
(* The font here holds 'A' (7 x 12) and 'B' (3 x 12).                      *)
(***************************************************************************)
guiFont_Tahoma_7_Regular ==
    << 0, 0, 65, 0, 66, 0, 12, 0,
       7, 16, 0, 0,
       3, 28, 0, 0,
       0, 8, 8, 20, 20, 34, 34, 62, 65, 65, 0, 0,
       0, 3, 5, 5, 3, 5, 5, 5, 3, 0, 0, 0 >>

\* self.font[i] (Python indexes from 0)
font(i) == guiFont_Tahoma_7_Regular[i + 1]

\* _set_font, the font part: set once, on the first draw_text
first_char  == BitOr(font(2), Shl(font(3), 8))
last_char   == BitOr(font(4), Shl(font(5), 8))
font_height == font(6)

\* _set_font, the colour part: the new self.font_color (cur is the old one)
_set_font(cur, color, encode) ==
    IF color # None THEN Resolve(color, encode) ELSE cur

\* _set_text_prop: the new (self.align, self.background)
_set_text_prop(al, bg, encode) ==
    [align      |-> IF al \notin OLED_TEXT_ALIGN THEN OLED_TEXT_ALIGN_CENTER ELSE al,
     background |-> IF bg # None THEN Resolve(bg, encode) ELSE DefaultBackground]

RECURSIVE SumWidths(_)
SumWidths(text) ==
    IF text = << >> THEN 0
    ELSE font(8 + Shl(Head(text) - first_char, 2)) + 1 + SumWidths(Tail(text))

_get_text_width(text) == SumWidths(text) - 1

\* _write_c_to_buf: the glyph of character c as pixels, row by row; the
\* mask restarts at 1 and the next font byte is read at each row start.
_write_c_to_buf(c, fc, bg) ==
    LET idx     == 8 + Shl(c - first_char, 2)
        c_width == font(idx)
        offset  == BitOr(BitOr(font(idx + 1), Shl(font(idx + 2), 8)),
                         Shl(font(idx + 3), 16))
        area    == font_height * c_width
        Pixel(cnt) ==
            LET byte == font(offset + (cnt \div c_width))
                mask == Shl(1, cnt % c_width)
            IN  IF BitAnd(byte, mask) # 0 THEN fc ELSE bg
    IN  [c_width |-> c_width,
         c_buf   |-> [i \in 1..(2 * area) |->
                        IF i % 2 = 1 THEN Shr(Pixel((i - 1) \div 2), 8)
                                     ELSE BitAnd(Pixel((i - 1) \div 2), 255)]]

\* _add_char_to_dynamic_area(idx, c_width, c_height): copies self.c_buf into
\* the area buffer from byte idx, skipping to the next area row after each
\* glyph row.  k is the position in c_buf.
RECURSIVE CopyGlyph(_, _, _, _, _, _, _)
CopyGlyph(buffer, cb, k, idx, x_count, c_width, area_width) ==
    IF k > Len(cb) THEN buffer
    ELSE LET wrap == (x_count + 1 = c_width * 2)
         IN  CopyGlyph([buffer EXCEPT ![idx + 1] = cb[k]], cb, k + 1,
                       (IF wrap THEN idx + (area_width - c_width) * 2 ELSE idx) + 1,
                       IF wrap THEN 0 ELSE x_count + 1,
                       c_width, area_width)

_add_char_to_dynamic_area(buffer, cb, idx, c_width, area_width) ==
    CopyGlyph(buffer, cb, 1, idx, 0, c_width, area_width)

\* Positional arguments _add_text passes to _add_char_to_dynamic_area
\* (idx, c_width) and the ones its definition requires (idx, c_width, c_height).
AddCharArgsPassed   == 2
AddCharArgsRequired == 3

\* The loop of _add_text were the call well-formed: every glyph placed.
RECURSIVE PlaceGlyphs(_, _, _, _, _, _, _)
PlaceGlyphs(text, x, y, buffer, area_width, fc, bg) ==
    IF text = << >> THEN buffer
    ELSE LET g   == _write_c_to_buf(Head(text), fc, bg)
             idx == (y * area_width * 2) + x * 2
         IN  PlaceGlyphs(Tail(text), x + g.c_width + 1, y,
                         _add_char_to_dynamic_area(buffer, g.c_buf, idx, g.c_width, area_width),
                         area_width, fc, bg)

\* _add_text on the area (width w, height h), with the resolved style.
\* Yields the area's new width, height and buffer and the exception raised.
\* oldbuf is the area's buffer before the call.  With a non-empty text the
\* first glyph is unpacked (_write_c_to_buf) and then the call of
\* _add_char_to_dynamic_area fails: it passes two of the three arguments.
_add_text(text, w, h, fc, al, bg, oldbuf) ==
    LET t_width == _get_text_width(text)
        resize  == w < t_width \/ h < font_height
        width   == IF resize THEN t_width ELSE w
        height  == IF resize THEN font_height ELSE h
        y       == Shr(height - font_height, 1)
        x       == IF al = OLED_TEXT_ALIGN_LEFT THEN 0
                   ELSE IF al = OLED_TEXT_ALIGN_RIGHT THEN width - t_width
                   ELSE IF al = OLED_TEXT_ALIGN_CENTER THEN (width - t_width) \div 2
                   ELSE IF al = OLED_TEXT_ALIGN_NONE THEN 0
                   ELSE None    \* x is never bound
        area    == width * height
        base    == [width |-> width, height |-> height]
    IN  IF area < 0
        THEN \* _create_text_background: bytearray(area*2) of a negative size
             base @@ [buffer |-> oldbuf, raised |-> "ValueError"]
        ELSE IF text = << >>
        THEN base @@ [buffer |-> SolidBuffer(area, bg), raised |-> "None"]
        ELSE IF x = None
        THEN base @@ [buffer |-> SolidBuffer(area, bg), raised |-> "UnboundLocalError"]
        ELSE IF AddCharArgsPassed # AddCharArgsRequired
        THEN base @@ [buffer |-> SolidBuffer(area, bg), raised |-> "TypeError"]
        ELSE base @@ [buffer |-> PlaceGlyphs(text, x, y, SolidBuffer(area, bg), width, fc, bg),
                      raised |-> "None"]

(***************************************************************************)
(* draw_text: style resolution, the box defaults, the fresh dynamic area,  *)
(* _add_text, then the address window and the composed buffer.  Yields     *)
(* every field draw_text may write.                                        *)
(***************************************************************************)
draw_text_style_retain(color, al, bg, encode) ==
    [font_color |-> IF color # None THEN Resolve(color, encode)
                    ELSE IF font_color # None THEN font_color
                    ELSE _encode_color(DefaultFontColor),
     align      |-> IF al \in OLED_TEXT_ALIGN THEN al
                    ELSE IF align # None THEN align
                    ELSE OLED_TEXT_ALIGN_CENTER,
     background |-> IF bg # None THEN Resolve(bg, encode)
                    ELSE IF background # None THEN background
                    ELSE DefaultBackground]

\* Lines 578-589: the resolved (font_color, align, background).
draw_text_style(color, al, bg, encode) ==
    LET fc == IF color # None THEN _set_font(font_color, color, encode)
              ELSE _set_font(font_color, DefaultFontColor, TRUE)
        tp == IF bg # None /\ al # None THEN _set_text_prop(al, bg, encode)
              ELSE IF bg # None THEN _set_text_prop(OLED_TEXT_ALIGN_CENTER, bg, encode)
              ELSE IF al # None THEN _set_text_prop(al, None, TRUE)
              ELSE _set_text_prop(OLED_TEXT_ALIGN_CENTER, None, TRUE)
    IN  [font_color |-> fc, align |-> tp.align, background |-> tp.background]

\* Lines 590-605, with the style st resolved.
draw_text_body(text, x0, y0, w0, h0, st) ==
    LET t == _add_text(text, w0, h0, st.font_color, st.align, st.background,
                       dynamic_area.buffer)
        area(buffer) == [x |-> x0, y |-> y0, width |-> t.width, height |-> t.height,
                         buffer |-> buffer]
    IN  IF t.raised # "None"
        THEN st @@ [dynamic_area |-> area(t.buffer), wire |-> << >>, raised |-> t.raised]
        ELSE IF screen_width = None
        THEN st @@ [dynamic_area |-> area(t.buffer), wire |-> << >>,
                    raised |-> "AttributeError"]
        ELSE st @@ [dynamic_area |-> area(<< >>),
                    wire   |-> _prepare(x0, y0, t.width, t.height) \o _send_data(t.buffer),
                    raised |-> "None"]

draw_text_cursor(text, x, y, w, h, color, al, bg, encode) ==
    draw_text_body(text,
                   IF x = None THEN dynamic_area.x + dynamic_area.width + 1 ELSE x,
                   IF y = None THEN 0 ELSE y,
                   IF w = None THEN _get_text_width(text) ELSE w,
                   IF h = None THEN font_height ELSE h,
                   draw_text_style(color, al, bg, encode))

draw_text_run(text, x, y, w, h, color, al, bg, encode) ==
    draw_text_body(text,
                   IF x = None THEN 0 ELSE x,
                   IF y = None THEN 0 ELSE y,
                   IF w = None THEN _get_text_width(text) ELSE w,
                   IF h = None THEN font_height ELSE h,
                   draw_text_style(color, al, bg, encode))

(***************************************************************************)
(* init: the validation, the stored geometry and the register program.     *)
(***************************************************************************)
init_program_rows_first(w, h) ==
    _command(CMD_COMMANDLOCK) \o _data(18)
    \o _command(CMD_COMMANDLOCK) \o _data(177)
    \o _command(CMD_DISPLAYOFF)
    \o _command(CMD_CLOCKDIV) \o _data(241)
    \o _command(CMD_MUXRATIO) \o _data(w - 1)
    \o _command(CMD_SETREMAP) \o _data(w)
    \o _command(CMD_SETROW) \o _data(0) \o _data(h - 1)
    \o _command(CMD_SETCOLUMN) \o _data(0) \o _data(w - 1)
    \o _command(CMD_STARTLINE) \o _data(128)
    \o _command(CMD_DISPLAYOFFSET) \o _data(w)
    \o _command(CMD_PRECHARGE) \o _data(50)
    \o _command(CMD_VCOMH) \o _data(5)
    \o _command(CMD_NORMALDISPLAY)
    \o _command(CMD_CONTRASTABC) \o _data(138) \o _data(81) \o _data(138)
    \o _command(CMD_CONTRASTMASTER) \o _data(207)
    \o _command(CMD_SETVSL) \o _data(160) \o _data(181) \o _data(85)
    \o _command(CMD_PRECHARGE2) \o _data(1)

\* The exchanges of a successful init (lines 204-241).
init_program(w, h) ==
    _command(CMD_COMMANDLOCK) \o _data(18)
    \o _command(CMD_COMMANDLOCK) \o _data(177)
    \o _command(CMD_DISPLAYOFF)
    \o _command(CMD_CLOCKDIV) \o _data(241)
    \o _command(CMD_MUXRATIO) \o _data(w - 1)
    \o _command(CMD_SETREMAP) \o _data(w)
    \o _command(CMD_SETCOLUMN) \o _data(0) \o _data(w - 1)
    \o _command(CMD_SETROW) \o _data(0) \o _data(h - 1)
    \o _command(CMD_STARTLINE) \o _data(128)
    \o _command(CMD_DISPLAYOFFSET) \o _data(w)
    \o _command(CMD_PRECHARGE) \o _data(50)
    \o _command(CMD_VCOMH) \o _data(5)
    \o _command(CMD_NORMALDISPLAY)
    \o _command(CMD_CONTRASTABC) \o _data(138) \o _data(81) \o _data(138)
    \o _command(CMD_CONTRASTMASTER) \o _data(207)
    \o _command(CMD_SETVSL) \o _data(160) \o _data(181) \o _data(85)
    \o _command(CMD_PRECHARGE2) \o _data(1)

\* The geometry init stores and its exchanges.
init_stores(w, h) ==
    [screen_width  |-> w,
     screen_height |-> h,
     column_offset |-> Shr(MaxScreen - w, 1),
     raw_offset    |-> 0,
     bit_per_pixel |-> 2]

init_kept ==
    [screen_width  |-> screen_width,
     screen_height |-> screen_height,
     column_offset |-> column_offset,
     raw_offset    |-> raw_offset,
     bit_per_pixel |-> bit_per_pixel]

init_late_check(w, h) ==
    IF w > MaxScreen \/ h > MaxScreen
    THEN init_stores(w, h) @@ [wire |-> << >>, raised |-> "ValueError"]
    ELSE init_stores(w, h) @@ [wire |-> init_program(w, h), raised |-> "None"]

init_run(w, h) ==
    IF w > MaxScreen \/ h > MaxScreen
    THEN init_kept @@ [wire |-> << >>, raised |-> "ValueError"]
    ELSE init_stores(w, h) @@ [wire |-> init_program(w, h), raised |-> "None"]

set_contrast_run(contrast) ==
    IF contrast > MaxContrast
    THEN [wire |-> << >>, raised |-> "ValueError"]
    ELSE [wire |-> _command(CMD_CONTRASTMASTER) \o _data(contrast), raised |-> "None"]

(***************************************************************************)
(* The record of a call: its name and its arguments (None where the method *)
(* has no such argument or the caller left it out).                        *)
(***************************************************************************)
NoArgs ==
    [op |-> "__init__", text |-> << >>, bytes |-> << >>,
     x |-> None, y |-> None, w |-> None, h |-> None,
     color |-> None, align |-> None, background |-> None,
     encode |-> TRUE, contrast |-> None]

(***************************************************************************)
(* The inputs the actions draw from.                                       *)
(***************************************************************************)
HexiwearDim == 96    \* the panel of the examples: ssd.init(96,96)

\* <<screen_width, screen_height>>: the small panel, the examples' panel and
\* two pairs init rejects.
InitArgs ==
    { <<SmallW, SmallH>>, <<HexiwearDim, HexiwearDim>>,
      <<MaxScreen + 1, HexiwearDim>>, <<HexiwearDim, MaxScreen + 1>> }

\* Origins <<x, y>>: columns 0..SmallW (the last one is off the small panel),
\* rows 0, the small panel's last row and the first row below it.
Points == (0..SmallW) \X {0, SmallH - 1, SmallH}

\* <<w, h>>
Sizes == (1..MaxSize) \X {1, MaxSize}

\* <<color, encode>>
FillColors  == { <<17521, FALSE>> }
RectColors  == { <<16776960, TRUE>> }
PixelColors == { <<65535, FALSE>>, <<16711680, TRUE>> }

\* <<bytes, w, h>>
Images == { <<(<<68, 113>>), 1, 1>>, <<(<<0, 1, 2, 3, 4, 5, 6, 7>>), 2, 2>> }

Contrasts == { 0, 127, MaxContrast, MaxContrast + 1 }

\* draw_text calls: <<text, x, y, w, h, color, align, background, encode>>,
\* the text as character codes ("A" = 65, "B" = 66).
DrawTextCalls ==
    { << <<65>>,     None, None, None, None, 65535, None, 0, FALSE >>,
      << <<65, 66>>, None, None, None, None, None, None, None, TRUE >>,
      << << >>,      0, 0, 9, 14, 17521, OLED_TEXT_ALIGN_LEFT, 0, FALSE >>,
      << << >>,      0, 0, 9, 14, None, None, None, TRUE >>,
      << <<65>>,     SmallW, 0, 2, 2, 17521, OLED_TEXT_ALIGN_LEFT, 0, FALSE >>,
      << << >>,      SmallW, 0, 2, 12, None, OLED_TEXT_ALIGN_RIGHT, 255, TRUE >>,
      << << >>,      None, None, None, None, None, None, None, TRUE >>,
      << <<65, 66>>, 0, 0, 20, 5, None, OLED_TEXT_ALIGN_RIGHT, 255, TRUE >>,
      << << >>,      0, 0, 2, 12, 17521, None, None, FALSE >> }

(***************************************************************************)
(* The state after construction (__init__).                                *)
(***************************************************************************)
Init ==
    /\ screen_width = None
    /\ screen_height = None
    /\ column_offset = None
    /\ raw_offset = None
    /\ bit_per_pixel = None
    /\ font_init = FALSE
    /\ font_color = None
    /\ align = None
    /\ background = None
    /\ dynamic_area = [x |-> 0, y |-> 0, width |-> 0, height |-> 0, buffer |-> << >>]
    /\ call = NoArgs
    /\ wire = << >>
    /\ raised = "None"
    /\ ret = None

(***************************************************************************)
(* The public methods.                                                     *)
(***************************************************************************)
\* What every drawing method leaves: the exchanges and the exception.
Outcome(r) ==
    /\ wire' = r.wire
    /\ raised' = r.raised
    /\ ret' = None

init(w, h) ==
    \E r \in { init_run(w, h) } :
        /\ call' = [NoArgs EXCEPT !.op = "init", !.w = w, !.h = h]
        /\ screen_width' = r.screen_width
        /\ screen_height' = r.screen_height
        /\ column_offset' = r.column_offset
        /\ raw_offset' = r.raw_offset
        /\ bit_per_pixel' = r.bit_per_pixel
        /\ Outcome(r)
        /\ UNCHANGED style

on ==
    /\ call' = [NoArgs EXCEPT !.op = "on"]
    /\ Outcome([wire |-> _command(DISPLAYON), raised |-> "None"])
    /\ UNCHANGED <<display, style>>

off ==
    /\ call' = [NoArgs EXCEPT !.op = "off"]
    /\ Outcome([wire |-> _command(DISPLAYOFF), raised |-> "None"])
    /\ UNCHANGED <<display, style>>

set_contrast(contrast) ==
    \E r \in { set_contrast_run(contrast) } :
        /\ call' = [NoArgs EXCEPT !.op = "set_contrast", !.contrast = contrast]
        /\ Outcome(r)
        /\ UNCHANGED <<display, style>>

fill_rect(x, y, w, h, color, encode) ==
    \E r \in { fill_rect_run(x, y, w, h, color, encode) } :
        /\ call' = [NoArgs EXCEPT !.op = "fill_rect", !.x = x, !.y = y, !.w = w, !.h = h,
                                  !.color = color, !.encode = encode]
        /\ Outcome(r)
        /\ UNCHANGED <<display, style>>

\* fill_screen(color, encode) is fill_rect(0, 0, width, height, color, encode);
\* before init the arguments themselves fail to evaluate.
fill_screen(color, encode) ==
    \E r \in { fill_rect_run(0, 0, screen_width, screen_height, color, encode) } :
        /\ call' = [NoArgs EXCEPT !.op = "fill_screen", !.color = color, !.encode = encode]
        /\ Outcome(r)
        /\ UNCHANGED <<display, style>>

\* clear() is fill_screen(0x000000)
clear ==
    \E r \in { fill_rect_run(0, 0, screen_width, screen_height, ClearColor, TRUE) } :
        /\ call' = [NoArgs EXCEPT !.op = "clear"]
        /\ Outcome(r)
        /\ UNCHANGED <<display, style>>

draw_img(bytes, x, y, w, h) ==
    \E r \in { draw_img_run(bytes, x, y, w, h) } :
        /\ call' = [NoArgs EXCEPT !.op = "draw_img", !.bytes = bytes,
                                  !.x = x, !.y = y, !.w = w, !.h = h]
        /\ Outcome(r)
        /\ UNCHANGED <<display, style>>

draw_pixel(x, y, color, encode) ==
    \E r \in { draw_pixel_run(x, y, color, encode) } :
        /\ call' = [NoArgs EXCEPT !.op = "draw_pixel", !.x = x, !.y = y,
                                  !.color = color, !.encode = encode]
        /\ Outcome(r)
        /\ UNCHANGED <<display, style>>

draw_text(text, x, y, w, h, color, al, bg, encode) ==
    \E r \in { draw_text_run(text, x, y, w, h, color, al, bg, encode) } :
        /\ call' = [NoArgs EXCEPT !.op = "draw_text", !.text = text,
                                  !.x = x, !.y = y, !.w = w, !.h = h, !.color = color,
                                  !.align = al, !.background = bg, !.encode = encode]
        /\ font_init' = TRUE
        /\ font_color' = r.font_color
        /\ align' = r.align
        /\ background' = r.background
        /\ dynamic_area' = r.dynamic_area
        /\ Outcome(r)
        /\ UNCHANGED display

\* _encode_color called on its own: the value it returns.
encode_color(color) ==
    /\ call' = [NoArgs EXCEPT !.op = "_encode_color", !.color = color]
    /\ wire' = << >>
    /\ raised' = "None"
    /\ ret' = _encode_color(color)
    /\ UNCHANGED <<display, style>>

(***************************************************************************)
(* Spec: every public method, on the small panel and on the examples'      *)
(* panel; draw_text with the calls that compose an empty text.             *)
(***************************************************************************)
BlankTextCalls == { t \in DrawTextCalls : t[1] = << >> }

Next ==
    \/ \E a \in InitArgs : init(a[1], a[2])
    \/ on
    \/ off
    \/ \E c \in Contrasts : set_contrast(c)
    \/ clear
    \/ \E c \in FillColors : fill_screen(c[1], c[2])
    \/ \E p \in Points, s \in Sizes, c \in RectColors :
          fill_rect(p[1], p[2], s[1], s[2], c[1], c[2])
    \/ \E i \in Images, p \in Points : draw_img(i[1], p[1], p[2], i[2], i[3])
    \/ \E p \in Points, c \in PixelColors : draw_pixel(p[1], p[2], c[1], c[2])
    \/ \E t \in BlankTextCalls :
          draw_text(t[1], t[2], t[3], t[4], t[5], t[6], t[7], t[8], t[9])

Spec == Init /\ [][Next]_vars

(***************************************************************************)
(* SpecText: the text engine, every draw_text call of DrawTextCalls        *)
(* between inits and other calls.                                          *)
(***************************************************************************)
NextText ==
    \/ \E a \in InitArgs : init(a[1], a[2])
    \/ on
    \/ \E c \in Contrasts : set_contrast(c)
    \/ \E p \in Points, c \in PixelColors : draw_pixel(p[1], p[2], c[1], c[2])
    \/ \E t \in DrawTextCalls :
          draw_text(t[1], t[2], t[3], t[4], t[5], t[6], t[7], t[8], t[9])

SpecText == Init /\ [][NextText]_vars

(***************************************************************************)
(* SpecEncode: _encode_color applied to 24-bit colours: every grey level   *)
(* and every combination of the sampled channel values.                    *)
(***************************************************************************)
ChannelSamples == { 0, 9, 128, 255 }

EncodeInputs ==
    { r * 65536 + g * 256 + b : r \in ChannelSamples, g \in ChannelSamples,
                                b \in ChannelSamples }
    \cup { v * 65793 : v \in 0..255 }

NextEncode == \E c \in EncodeInputs : encode_color(c)

SpecEncode == Init /\ [][NextEncode]_vars

(***************************************************************************)
(* The controller, as the address-window protocol describes it: the column *)
(* and row commands take two parameter bytes each, the write-RAM command   *)
(* puts the cursor at the window's origin, and every two data bytes after  *)
(* it are one pixel, written at the cursor, which advances row-major       *)
(* inside the window.  ram maps the <<column, row>> written so far to the  *)
(* 16-bit value they hold.                                                 *)
(***************************************************************************)
Controller0 ==
    [cmd |-> None, np |-> 0, cs |-> 0, ce |-> 127, rs |-> 0, re |-> 127,
     cx |-> 0, cy |-> 0, half |-> None, ram |-> << >>]

ControllerByte(ctl, dc, b) ==
    IF dc = 0
    THEN IF b = CMD_WRITERAM
         THEN [ctl EXCEPT !.cmd = b, !.np = 0, !.cx = ctl.cs, !.cy = ctl.rs, !.half = None]
         ELSE [ctl EXCEPT !.cmd = b, !.np = 0]
    ELSE IF ctl.cmd = CMD_SETCOLUMN
    THEN IF ctl.np = 0 THEN [ctl EXCEPT !.cs = b, !.np = 1]
         ELSE IF ctl.np = 1 THEN [ctl EXCEPT !.ce = b, !.np = 2]
         ELSE ctl
    ELSE IF ctl.cmd = CMD_SETROW
    THEN IF ctl.np = 0 THEN [ctl EXCEPT !.rs = b, !.np = 1]
         ELSE IF ctl.np = 1 THEN [ctl EXCEPT !.re = b, !.np = 2]
         ELSE ctl
    ELSE IF ctl.cmd = CMD_WRITERAM
    THEN IF ctl.half = None THEN [ctl EXCEPT !.half = b]
         ELSE LET wrap == ctl.cx >= ctl.ce
              IN  [ctl EXCEPT !.ram  = (<<ctl.cx, ctl.cy>> :> (ctl.half * 256 + b)) @@ ctl.ram,
                              !.half = None,
                              !.cx   = IF wrap THEN ctl.cs ELSE ctl.cx + 1,
                              !.cy   = IF ~wrap THEN ctl.cy
                                       ELSE IF ctl.cy >= ctl.re THEN ctl.rs ELSE ctl.cy + 1]
    ELSE ctl

RECURSIVE ControllerBytes(_, _, _)
ControllerBytes(ctl, dc, bytes) ==
    IF bytes = << >> THEN ctl
    ELSE ControllerBytes(ControllerByte(ctl, dc, Head(bytes)), dc, Tail(bytes))

\* The controller after the exchanges w.
RECURSIVE Controller(_, _)
Controller(ctl, w) ==
    IF w = << >> THEN ctl
    ELSE Controller(ControllerBytes(ctl, Head(w).dc, Head(w).bytes), Tail(w))

(***************************************************************************)
(* Vocabulary of the properties.                                           *)
(***************************************************************************)
Cmd(c) == [dc |-> 0, bytes |-> <<c>>]
Dat(d) == [dc |-> 1, bytes |-> <<d>>]

DrawOps == { "fill_rect", "draw_img", "draw_pixel", "draw_text" }

\* The last call programmed an address window (through _prepare).
Programmed == call.op \in DrawOps \cup { "fill_screen", "clear" }
              /\ Len(wire) >= 7 /\ wire[1] = Cmd(21)

\* The window on the wire: origin, width and height.
WinX == wire[2].bytes[1]
WinW == wire[3].bytes[1] - WinX + 1
WinY == wire[5].bytes[1]
WinH == wire[6].bytes[1] - WinY + 1

\* Every pixel (byte pair) of the buffer b is the 16-bit value v.
AllPixels(b, v) ==
    \A i \in 1..(Len(b) \div 2) : b[2 * i - 1] = v \div 256 /\ b[2 * i] = v % 256

(***************************************************************************)
(* C1.  After a successful init(W, H), fill_screen(c, encode=False)        *)
(* programs the column range (off, off+W-1) with off = (128-W)/2 and the   *)
(* row range (0, H-1), sends the write-RAM command and streams exactly     *)
(* W*H*2 bytes, every pixel the pair (c >> 8, c & 0xFF); for init(96,96)   *)
(* and c = 0x4471: window (16,0)-(111,95), 18432 bytes 0x44, 0x71.         *)
(***************************************************************************)
C1_FillScreenWire ==
    (call.op = "fill_screen" /\ ~call.encode /\ raised = "None") =>
        LET W      == screen_width
            H      == screen_height
            coloff == (128 - W) \div 2
        IN  /\ Len(wire) = 8
            /\ SubSeq(wire, 1, 7) = << Cmd(21), Dat(coloff), Dat(coloff + W - 1),
                                       Cmd(117), Dat(0), Dat(H - 1), Cmd(92) >>
            /\ wire[8].dc = 1
            /\ Len(wire[8].bytes) = W * H * 2
            /\ AllPixels(wire[8].bytes, call.color)
            /\ (W = 96 /\ H = 96 /\ call.color = 17521) =>
                  /\ SubSeq(wire, 1, 7) = << Cmd(21), Dat(16), Dat(111),
                                             Cmd(117), Dat(0), Dat(95), Cmd(92) >>
                  /\ Len(wire[8].bytes) = 18432
                  /\ \A i \in 1..18432 : wire[8].bytes[i] = IF i % 2 = 1 THEN 68 ELSE 113

C1_Witness ==
    /\ call.op = "fill_screen" /\ call.color = 17521 /\ ~call.encode
    /\ screen_width = 96 /\ screen_height = 96
    /\ raised = "None" /\ Len(wire) = 8 /\ Len(wire[8].bytes) = 18432

(***************************************************************************)
(* C2.  init with a dimension above 128 and set_contrast above 255 raise   *)
(* before any byte is sent and leave the stored dimensions, the column     *)
(* offset and the style state as they were.                                *)
(***************************************************************************)
C2_RejectedCallChangesNothing ==
    [][ ( \/ call'.op = "init" /\ (call'.w > 128 \/ call'.h > 128)
          \/ call'.op = "set_contrast" /\ call'.contrast > 255 )
        => /\ raised' = "ValueError"
           /\ wire' = << >>
           /\ display' = display
           /\ style' = style ]_vars

C2_Witness ==
    /\ call.op = "init" /\ call.w > 128
    /\ raised = "ValueError" /\ wire = << >>
    /\ screen_width = 96 /\ column_offset = 16 /\ font_color # None

C4_OffScreenDrawSendsNothing ==
    ( /\ call.op \in DrawOps
      /\ screen_width # None
      /\ (call.x >= screen_width \/ call.y >= screen_height) )
    => (raised = "None" /\ wire = << >>)

(***************************************************************************)
(* C5.  _prepare(x, y, w, h) with the origin on the screen reduces w to    *)
(* screenWidth - x - 1 if x + w > screenWidth and h to screenHeight - y - 1*)
(* if y + h > screenHeight, and emits the column range (x + columnOffset,  *)
(* x + columnOffset + w - 1), the row range (y, y + h - 1) and write-RAM;  *)
(* with x >= screenWidth it sends nothing (the only exchange on the wire   *)
(* is the caller's data).                                                  *)
(***************************************************************************)
C5_PrepareClipsAndEmits ==
    (call.op \in DrawOps /\ raised = "None") =>
        LET text == call.op = "draw_text"
            x  == IF text THEN dynamic_area.x ELSE call.x
            y  == IF text THEN dynamic_area.y ELSE call.y
            w  == IF text THEN dynamic_area.width
                  ELSE IF call.op = "draw_pixel" THEN 1 ELSE call.w
            h  == IF text THEN dynamic_area.height
                  ELSE IF call.op = "draw_pixel" THEN 1 ELSE call.h
            w1 == IF x + w > screen_width THEN screen_width - x - 1 ELSE w
            h1 == IF y + h > screen_height THEN screen_height - y - 1 ELSE h
        IN  /\ (x < screen_width /\ y < screen_height) =>
                /\ Len(wire) = 8
                /\ SubSeq(wire, 1, 7) =
                     << Cmd(21), Dat(x + column_offset), Dat(x + column_offset + w1 - 1),
                        Cmd(117), Dat(y), Dat(y + h1 - 1), Cmd(92) >>
            /\ x >= screen_width =>
                /\ Len(wire) = 1
                /\ wire[1].dc = 1

\* A rectangle clipped on the right to a window that is one column wide.
C5_Witness ==
    /\ call.op = "fill_rect" /\ raised = "None"
    /\ call.x + call.w > screen_width
    /\ call.x = screen_width - 2
    /\ Len(wire) = 8
    /\ wire[2] = Dat(call.x + column_offset) /\ wire[3] = wire[2]

(***************************************************************************)
(* C6 as stated.  Every window _prepare programs has, after clipping and   *)
(* offset translation, x + width <= screen width, y + height <= screen     *)
(* height, and x, y, width, height non-negative.                           *)
(***************************************************************************)
C6_WindowInsideScreen ==
    Programmed =>
        /\ WinX + WinW <= screen_width
        /\ WinY + WinH <= screen_height
        /\ WinX >= 0 /\ WinY >= 0 /\ WinW >= 0 /\ WinH >= 0

(***************************************************************************)
(* C6 amended.  Every window _prepare programs has, after clipping and     *)
(* offset translation, x + width <= column offset + screen width (which is *)
(* at most 128), y + height <= screen height, and x, y, width, height      *)
(* non-negative.                                                           *)
(***************************************************************************)
C6_WindowInsidePanel ==
    Programmed =>
        /\ WinX + WinW <= column_offset + screen_width
        /\ column_offset + screen_width <= 128
        /\ WinY + WinH <= screen_height
        /\ WinX >= 0 /\ WinY >= 0 /\ WinW >= 0 /\ WinH >= 0

\* A rectangle that overhangs the screen on the right and below.
C6_Witness ==
    /\ Programmed /\ call.op = "fill_rect"
    /\ call.x + call.w > screen_width
    /\ call.y + call.h > screen_height
    /\ WinX + WinW > screen_width

(***************************************************************************)
(* C7.  draw_text on a non-empty string of characters of the font, called  *)
(* without a box, completes without raising and streams an area buffer of  *)
(* textWidth * fontHeight * 2 bytes whose every pixel is the resolved font *)
(* colour or the resolved background.                                      *)
(***************************************************************************)
C7_TextDrawn ==
    (call.op = "draw_text" /\ call.text # << >> /\ call.w = None /\ call.h = None
     /\ screen_width # None)
    => /\ raised = "None"
       /\ Len(wire) = 8
       /\ Len(wire[8].bytes) = _get_text_width(call.text) * font_height * 2
       /\ \A i \in 1..(Len(wire[8].bytes) \div 2) :
             wire[8].bytes[2 * i - 1] * 256 + wire[8].bytes[2 * i]
                 \in { font_color, background }

(***************************************************************************)
(* C8.  Two consecutive draw_text calls with the same arguments, from any  *)
(* state, have the same outcome: the same exchanges on the wire (address   *)
(* window and composed buffer), the same exception, the same area.         *)
(***************************************************************************)
C8_DrawTextIdempotent ==
    [][ (call.op = "draw_text" /\ call' = call)
        => /\ wire' = wire
           /\ raised' = raised
           /\ dynamic_area' = dynamic_area ]_vars

\* A draw_text call that completed and streamed its buffer; the same call
\* can follow it.
C8_Witness ==
    /\ call.op = "draw_text" /\ raised = "None"
    /\ Len(wire) = 8 /\ Len(wire[8].bytes) = 9 * 14 * 2
    /\ dynamic_area.width = 9 /\ dynamic_area.height = 14

(***************************************************************************)
(* C9.  _encode_color(c) is (floor(r*31/255) << 11) | (floor(g*63/255)     *)
(* << 5) | floor(b*31/255), a value in 0..65535, and the scaled red and    *)
(* blue channels do not decrease when the input channel does not.          *)
(***************************************************************************)
Red(c)   == (c \div 65536) % 256
Green(c) == (c \div 256) % 256
Blue(c)  == c % 256

C9_Encoded ==
    call.op = "_encode_color" =>
        /\ ret = BitOr(BitOr(Shl((Red(call.color) * 31) \div 255, 11),
                             Shl((Green(call.color) * 63) \div 255, 5)),
                       (Blue(call.color) * 31) \div 255)
        /\ ret \in 0..65535

C9_EncodeColor ==
    [][ /\ C9_Encoded'
        /\ (call.op = "_encode_color" /\ call'.op = "_encode_color") =>
              /\ Red(call'.color) >= Red(call.color) => ret' \div 2048 >= ret \div 2048
              /\ Blue(call'.color) >= Blue(call.color) => ret' % 32 >= ret % 32 ]_vars

C9_Witness ==
    call.op = "_encode_color" /\ call.color = 8421504 /\ ret = 31727

(***************************************************************************)
(* C10.  fill_rect of a rectangle inside the screen followed by draw_pixel *)
(* at a point of the rectangle leaves, in the controller RAM, that pixel   *)
(* holding the pixel's colour and every other pixel of the rectangle the   *)
(* fill colour.                                                            *)
(***************************************************************************)
C10_LastWriteWins ==
    [][ ( /\ call.op = "fill_rect" /\ raised = "None"
          /\ call.x + call.w <= screen_width /\ call.y + call.h <= screen_height
          /\ call'.op = "draw_pixel"
          /\ call'.x \in call.x..(call.x + call.w - 1)
          /\ call'.y \in call.y..(call.y + call.h - 1) )
        => LET ram == Controller(Controller(Controller0, wire), wire').ram
               c1  == IF call.encode THEN _encode_color(call.color) ELSE call.color
               c2  == IF call'.encode THEN _encode_color(call'.color) ELSE call'.color
           IN  \A i \in call.x..(call.x + call.w - 1), j \in call.y..(call.y + call.h - 1) :
                  /\ <<i + column_offset, j>> \in DOMAIN ram
                  /\ ram[<<i + column_offset, j>>] =
                        IF i = call'.x /\ j = call'.y THEN c2 ELSE c1 ]_vars

\* A pixel drawn inside the small panel, off the diagonal.
C10_Witness ==
    /\ call.op = "draw_pixel" /\ raised = "None"
    /\ call.x = 1 /\ call.y = 0
    /\ screen_width = SmallW
    /\ Len(wire) = 8 /\ wire[2] = Dat(1 + column_offset) /\ wire[5] = Dat(0)

(***************************************************************************)
(* C11.  Within one draw_text call the text area never shrinks: for a      *)
(* caller-supplied box (w, h) the area width after sizing is               *)
(* max(w, textWidth) and the area height is max(h, fontHeight).            *)
(***************************************************************************)
Max(a, b) == IF a >= b THEN a ELSE b

C11_AreaNeverShrinks ==
    (call.op = "draw_text" /\ call.w # None /\ call.h # None /\ screen_width # None) =>
        /\ dynamic_area.width = Max(call.w, _get_text_width(call.text))
        /\ dynamic_area.height = Max(call.h, 12)

(***************************************************************************)
(* C12.  A successful init(w, h) emits the commands in the fixed order     *)
(* unlock, clock divider, multiplex ratio, remap, column bounds, row       *)
(* bounds, start line, display offset, precharge, VCOMH, normal display,   *)
(* per-channel contrast, master contrast, segment low voltage, second      *)
(* precharge; every command byte goes out with the command/data line low,  *)
(* followed by its parameter bytes with the line high, one byte per        *)
(* exchange; and the sequence is a function of (w, h) alone.               *)
(***************************************************************************)
\* The command bytes of the exchanges w, in order.
RECURSIVE CommandsOf(_)
CommandsOf(w) ==
    IF w = << >> THEN << >>
    ELSE (IF Head(w).dc = 0 THEN Head(w).bytes ELSE << >>) \o CommandsOf(Tail(w))

\* s without the byte b and without immediate repetitions.
RECURSIVE Distinct(_, _)
Distinct(s, b) ==
    IF s = << >> THEN << >>
    ELSE IF Head(s) = b \/ (Len(s) > 1 /\ s[2] = Head(s)) THEN Distinct(Tail(s), b)
    ELSE <<Head(s)>> \o Distinct(Tail(s), b)

\* A command followed by its parameters, one exchange per byte.
RECURSIVE Params(_)
Params(p) == IF p = << >> THEN << >> ELSE <<Dat(Head(p))>> \o Params(Tail(p))

Write(c, p) == <<Cmd(c)>> \o Params(p)

InitOrder == << 253, 179, 202, 160, 21, 117, 161, 162, 177, 190, 166, 193, 199, 180, 182 >>

InitWire(w, h) ==
    Write(253, <<18>>) \o Write(253, <<177>>) \o Write(174, << >>)
    \o Write(179, <<241>>) \o Write(202, <<w - 1>>) \o Write(160, <<w>>)
    \o Write(21, <<0, w - 1>>) \o Write(117, <<0, h - 1>>)
    \o Write(161, <<128>>) \o Write(162, <<w>>) \o Write(177, <<50>>)
    \o Write(190, <<5>>) \o Write(166, << >>) \o Write(193, <<138, 81, 138>>)
    \o Write(199, <<207>>) \o Write(180, <<160, 181, 85>>) \o Write(182, <<1>>)

C12_InitProgram ==
    (call.op = "init" /\ raised = "None") =>
        /\ Distinct(CommandsOf(wire), 174) = InitOrder
        /\ \A i \in 1..Len(wire) : wire[i].dc \in {0, 1} /\ Len(wire[i].bytes) = 1
        /\ wire[1].dc = 0
        /\ wire = InitWire(call.w, call.h)

\* init on a driver that has drawn text before: the style is set, the wire
\* is the program for the 96x96 panel.
C12_Witness ==
    /\ call.op = "init" /\ raised = "None"
    /\ call.w = 96 /\ call.h = 96
    /\ font_color # None
    /\ Len(wire) = 38 /\ wire[9] = Dat(95) /\ wire[11] = Dat(96) /\ wire[38] = Dat(1)

(***************************************************************************)
(* C13.  For every fill_rect and draw_text call that programs an address   *)
(* window, clipped or not, the number of data bytes streamed after the     *)
(* write-RAM command is 2 * (column end - column start + 1) *              *)
(* (row end - row start + 1).                                              *)
(***************************************************************************)
C13_PayloadMatchesWindow ==
    (call.op \in { "fill_rect", "draw_text" } /\ Programmed /\ raised = "None") =>
        /\ Len(wire) = 8
        /\ wire[8].dc = 1
        /\ Len(wire[8].bytes) = 2 * WinW * WinH

====
